---- MODULE Spec2Model ----
(***************************************************************************)
(* The CustomMainMenu plugin (src/unnamed/part_000): the menu music        *)
(* capture / restore state kept in _currentMapBgm and _menuMusicActive,    *)
(* the parallax background scroll, and the plugin parameters, driven by    *)
(* the engine's scene life cycle (terminate -> create -> start -> update). *)
(*                                                                         *)
(* The plugin patches engine classes.  What the engine itself does is      *)
(* modelled only as far as the plugin reads it: which scene is next        *)
(* (SceneManager._nextScene), which scene classes extend Scene_MenuBase,   *)
(* and the AudioManager calls stopBgm / playBgm / saveBgm / replayBgm.     *)
(***************************************************************************)
EXTENDS Integers, Sequences, FiniteSets

VARIABLES
    parameters,        \* PluginManager.parameters('CustomMainMenu'), raw
    currentMapBgm,     \* _currentMapBgm
    menuMusicActive,   \* _menuMusicActive
    scene,             \* class of SceneManager._scene
    prevScene,         \* class of the scene terminated last
    sceneStarted,      \* whether start() of the current scene has run
    isTiling,          \* this._backgroundSprite instanceof TilingSprite
    origin,            \* this._backgroundSprite.origin, <<x, y>>
    ticks,             \* calls of update() on the current scene
    currentBgm,        \* AudioManager._currentBgm with its playback position
    calls,             \* AudioManager calls the plugin issued in this session
    sessionFrom,       \* class of the scene the session was entered from
    sessionFirst,      \* class of the first menu scene of the session
    sessionBgm,        \* what was playing when the session was entered
    menuStarts,        \* calls of Scene_Menu.start in this session
    stopParameters,    \* PluginManager.parameters('StopMovement'), raw
    loaded,            \* the plugin files run so far, in load order
    moveByInput,       \* Game_Player.prototype.moveByInput, innermost first
    updateSelfMovement, \* Game_Event.prototype.updateSelfMovement, likewise
    gameSwitches,      \* $gameSwitches
    isMoving,          \* Game_Player isMoving()
    canMove,           \* Game_Player canMove()
    inputDirection,    \* Game_Player getInputDirection()
    lastMoveByInput,   \* what the last moveByInput call did
    lastSelfMovement   \* what the last updateSelfMovement call did

vars == <<parameters, currentMapBgm, menuMusicActive, scene, prevScene,
          sceneStarted, isTiling, origin, ticks, currentBgm, calls,
          sessionFrom, sessionFirst, sessionBgm, menuStarts,
          stopParameters, loaded, moveByInput, updateSelfMovement,
          gameSwitches, isMoving, canMove, inputDirection,
          lastMoveByInput, lastSelfMovement>>

menuVars == <<parameters, currentMapBgm, menuMusicActive, scene, prevScene,
              sceneStarted, isTiling, origin, ticks, currentBgm, calls,
              sessionFrom, sessionFirst, sessionBgm, menuStarts>>

moveVars == <<stopParameters, loaded, moveByInput, updateSelfMovement,
              gameSwitches, isMoving, canMove, inputDirection,
              lastMoveByInput, lastSelfMovement>>

pluginVars == <<currentMapBgm, menuMusicActive>>
sessionVars == <<sessionFrom, sessionFirst, sessionBgm, menuStarts>>
spriteVars == <<isTiling, origin, ticks>>

----------------------------------------------------------------------------
(* Bounds *)

MaxPos == 1        \* playback positions 0..MaxPos
MaxTicks == 3      \* update() calls followed per scene instance
MaxStarts == 2     \* Scene_Menu.start calls followed per session
NSwitches == 2     \* game switches 1..NSwitches

----------------------------------------------------------------------------
(* JavaScript values *)

Null == [null |-> TRUE]

Truthy(x) == x # Null

\* A raw plugin parameter: missing, a non-numeric string, or a numeric string.
Unset == [t |-> "unset"]
Text == [t |-> "text"]
Num(n) == [t |-> "num", v |-> n]

RawNumbers(S) == {Unset, Text} \cup {Num(n) : n \in S}

\* Number(raw) || default : Number() is NaN for a missing or non-numeric
\* value, and NaN and 0 are both falsy.
NumberOrDefault(raw, default) ==
    IF raw.t = "num" /\ raw.v # 0 THEN raw.v ELSE default

\* raw || '' for the two file parameters
StringOrEmpty(raw) == IF raw.t = "text" THEN raw.v ELSE ""

File(name) == [t |-> "text", v |-> name]

----------------------------------------------------------------------------
(* The plugin parameters, lines 65-71 *)

backgroundImage == StringOrEmpty(parameters.backgroundImage)
parallaxHorizontalSpeed == NumberOrDefault(parameters.parallaxHorizontalSpeed, 1)
parallaxVerticalSpeed == NumberOrDefault(parameters.parallaxVerticalSpeed, 0)
menuMusic == StringOrEmpty(parameters.menuMusic)
musicVolume == NumberOrDefault(parameters.musicVolume, 80)
musicPitch == NumberOrDefault(parameters.musicPitch, 100)

----------------------------------------------------------------------------
(* Scene classes *)

Scenes == {"Scene_Map", "Scene_Menu", "Scene_Item", "Scene_Shop",
           "Scene_Load", "Scene_Title"}

\* x instanceof Scene_MenuBase
IsMenuBase(cls) == cls \in {"Scene_Menu", "Scene_Item", "Scene_Shop", "Scene_Load"}

\* x instanceof Scene_Map
IsMap(cls) == cls = "Scene_Map"

\* The scene changes the engine makes: the map opens the main menu or, from
\* an event, a shop / save / name screen, or returns to the title; the main
\* menu opens its sub-scenes and pops back to the map; a sub-scene pops back
\* to the main menu, goes to the map (an item's common event) or to the
\* title (Scene_GameEnd); the title starts a game or opens the load screen.
NextScenes(cls) ==
    CASE cls = "Scene_Map"   -> {"Scene_Menu", "Scene_Shop", "Scene_Title"}
      [] cls = "Scene_Menu"  -> {"Scene_Map", "Scene_Item"}
      [] cls = "Scene_Item"  -> {"Scene_Menu", "Scene_Map", "Scene_Title"}
      [] cls = "Scene_Shop"  -> {"Scene_Map"}
      [] cls = "Scene_Load"  -> {"Scene_Map", "Scene_Title"}
      [] cls = "Scene_Title" -> {"Scene_Map", "Scene_Load"}

----------------------------------------------------------------------------
(* AudioManager *)

MapTracks == {"Field", "Town"}

Bgm(name, volume, pitch, pan, pos) ==
    [name |-> name, volume |-> volume, pitch |-> pitch, pan |-> pan, pos |-> pos]

\* AudioManager.makeEmptyAudioObject(): { name: "", volume: 0, pitch: 0 }.
\* pan and pos are undefined there; they are never read for an empty name.
EmptyAudioObject == Bgm("", 0, 0, 0, 0)

\* AudioManager.saveBgm() as the engine defines it (rmmz_managers.js): the
\* current track with its position, or makeEmptyAudioObject() when nothing
\* is current.  It never returns null.
SaveBgm == IF currentBgm # Null THEN currentBgm ELSE EmptyAudioObject

StopCall == [op |-> "stopBgm", bgm |-> Null]
PlayCall(bgm) == [op |-> "playBgm", bgm |-> bgm]
ReplayCall(bgm) == [op |-> "replayBgm", bgm |-> bgm]

\* _currentBgm after AudioManager.playBgm(bgm, pos)
Played(bgm, pos) == [bgm EXCEPT !.pos = pos]

----------------------------------------------------------------------------
(* The plugin's handlers *)

\* line 81: SceneManager._nextScene instanceof Scene_MenuBase
CapturesMapBgm(next) == IsMenuBase(next)

\* Scene_Map.prototype.terminate, lines 79-84
Scene_Map_terminate(next) ==
    /\ currentMapBgm' = IF CapturesMapBgm(next) THEN SaveBgm ELSE currentMapBgm
    /\ UNCHANGED <<menuMusicActive, currentBgm>>

\* Scene_MenuBase.prototype.createBackground, lines 88-97: a TilingSprite
\* (origin (0, 0)) when a background image is configured, else the engine's
\* own background, which is a plain Sprite.
Scene_MenuBase_createBackground ==
    /\ isTiling' = (backgroundImage # "")
    /\ origin' = <<0, 0>>

\* Scene_MenuBase.prototype.update, lines 100-106
Scene_MenuBase_update ==
    origin' = IF isTiling
              THEN <<origin[1] + parallaxHorizontalSpeed,
                     origin[2] + parallaxVerticalSpeed>>
              ELSE origin

\* The test of line 112 without its menuMusic operand.
StartsMenuMusic_noConfigTest == ~menuMusicActive

\* line 112: menuMusic && !_menuMusicActive
StartsMenuMusic == menuMusic # "" /\ ~menuMusicActive

\* line 114: the object handed to AudioManager.playBgm
MenuBgm == Bgm(menuMusic, musicVolume, musicPitch, 0, 0)

\* Scene_Menu.prototype.start, lines 110-117
Scene_Menu_start ==
    IF StartsMenuMusic
    THEN /\ calls' = calls \o <<StopCall, PlayCall(MenuBgm)>>
         /\ currentBgm' = Played(MenuBgm, 0)
         /\ menuMusicActive' = TRUE
         /\ UNCHANGED currentMapBgm
    ELSE UNCHANGED <<calls, currentBgm, menuMusicActive, currentMapBgm>>

\* line 122: _menuMusicActive && SceneManager._nextScene instanceof Scene_Map
RestoresMapBgm(next) == menuMusicActive /\ IsMap(next)

\* Scene_MenuBase.prototype.terminate, lines 120-129
Scene_MenuBase_terminate(next) ==
    IF RestoresMapBgm(next)
    THEN /\ calls' = calls \o <<StopCall>> \o
                     (IF Truthy(currentMapBgm)
                      THEN <<ReplayCall(currentMapBgm)>> ELSE <<>>)
         /\ currentBgm' = IF Truthy(currentMapBgm)
                          THEN Played(currentMapBgm, currentMapBgm.pos)
                          ELSE Null
         /\ menuMusicActive' = FALSE
         /\ UNCHANGED currentMapBgm
    ELSE UNCHANGED <<calls, currentBgm, menuMusicActive, currentMapBgm>>

----------------------------------------------------------------------------
(* The scene life cycle that calls the handlers *)

\* SceneManager.changeScene after terminate(): the next scene becomes
\* current and is created; a menu-family scene creates its background.
EnterScene(next) ==
    /\ scene' = next
    /\ prevScene' = scene
    /\ sceneStarted' = FALSE
    /\ ticks' = 0
    /\ IF IsMenuBase(next)
       THEN Scene_MenuBase_createBackground
       ELSE isTiling' = FALSE /\ origin' = <<0, 0>>

\* A session begins when a menu-family scene follows a scene that is none.
BeginSession(next) ==
    IF IsMenuBase(next)
    THEN /\ sessionFrom' = scene
         /\ sessionFirst' = next
         /\ sessionBgm' = currentBgm
         /\ menuStarts' = 0
         /\ calls' = <<>>
    ELSE UNCHANGED <<sessionVars, calls>>

MapChangeScene(next) ==
    /\ scene = "Scene_Map" /\ sceneStarted
    /\ next \in NextScenes(scene)
    /\ Scene_Map_terminate(next)
    /\ BeginSession(next)
    /\ EnterScene(next)
    /\ UNCHANGED parameters
    /\ UNCHANGED moveVars

TitleChangeScene(next) ==
    /\ scene = "Scene_Title" /\ sceneStarted
    /\ next \in NextScenes(scene)
    /\ BeginSession(next)
    /\ EnterScene(next)
    /\ UNCHANGED <<parameters, pluginVars, currentBgm>>
    /\ UNCHANGED moveVars

MenuBaseChangeScene(next) ==
    /\ IsMenuBase(scene) /\ sceneStarted
    /\ next \in NextScenes(scene)
    /\ next = "Scene_Menu" => menuStarts < MaxStarts
    /\ Scene_MenuBase_terminate(next)
    /\ EnterScene(next)
    /\ UNCHANGED <<parameters, sessionVars>>
    /\ UNCHANGED moveVars

MenuStart ==
    /\ scene = "Scene_Menu" /\ ~sceneStarted
    /\ sceneStarted' = TRUE
    /\ Scene_Menu_start
    /\ menuStarts' = menuStarts + 1
    /\ UNCHANGED <<parameters, scene, prevScene, spriteVars,
                   sessionFrom, sessionFirst, sessionBgm>>
    /\ UNCHANGED moveVars

OtherStart ==
    /\ scene # "Scene_Menu" /\ ~sceneStarted
    /\ sceneStarted' = TRUE
    /\ UNCHANGED <<parameters, pluginVars, scene, prevScene, spriteVars,
                   currentBgm, calls, sessionVars>>
    /\ UNCHANGED moveVars

Update ==
    /\ IsMenuBase(scene) /\ sceneStarted
    /\ ticks < MaxTicks
    /\ ticks' = ticks + 1
    /\ Scene_MenuBase_update
    /\ UNCHANGED <<parameters, pluginVars, scene, prevScene, sceneStarted,
                   isTiling, currentBgm, calls, sessionVars>>
    /\ UNCHANGED moveVars

\* The game itself changes or stops the music outside the menus.
GamePlayBgm(name) ==
    /\ ~IsMenuBase(scene) /\ sceneStarted
    /\ currentBgm' = Bgm(name, 90, 100, 0, 0)
    /\ UNCHANGED <<parameters, pluginVars, scene, prevScene, sceneStarted,
                   spriteVars, calls, sessionVars>>
    /\ UNCHANGED moveVars

GameStopBgm ==
    /\ ~IsMenuBase(scene) /\ sceneStarted
    /\ currentBgm # Null
    /\ currentBgm' = Null
    /\ UNCHANGED <<parameters, pluginVars, scene, prevScene, sceneStarted,
                   spriteVars, calls, sessionVars>>
    /\ UNCHANGED moveVars

\* Playback goes on: the position of the current track advances.
AudioAdvance ==
    /\ currentBgm # Null /\ currentBgm.name # ""
    /\ currentBgm.pos < MaxPos
    /\ currentBgm' = [currentBgm EXCEPT !.pos = @ + 1]
    /\ UNCHANGED <<parameters, pluginVars, scene, prevScene, sceneStarted,
                   spriteVars, calls, sessionVars>>
    /\ UNCHANGED moveVars

----------------------------------------------------------------------------
(* StopMovement.js and ReverieHouse.js: the patches of                     *)
(* Game_Player.prototype.moveByInput and                                   *)
(* Game_Event.prototype.updateSelfMovement                                 *)

Plugins == {"CustomMainMenu", "ReverieHouse", "StopMovement"}

Directions == {0, 2, 8}

SwitchIds == 1..NSwitches

\* Number(raw || -1), StopMovement.js lines 21-22
SwitchIdOf(raw) == IF raw.t = "num" THEN raw.v ELSE -1

PCswitchId == SwitchIdOf(stopParameters.pc)
NPCswitchId == SwitchIdOf(stopParameters.npc)

\* $gameSwitches.value(id): false for an id that names no switch
SwitchValue(id) == id \in SwitchIds /\ gameSwitches[id]

IsLoaded(plugin) == \E i \in 1..Len(loaded) : loaded[i] = plugin

AllLoaded == \A plugin \in Plugins : IsLoaded(plugin)

NoCall == [called |-> FALSE, switchOn |-> FALSE, ranUnderlying |-> FALSE,
           moved |-> FALSE]

\* ReverieHouse.js lines 5-13: the body of its moveByInput
ReverieHouse_moveByInput ==
    [ranUnderlying |-> TRUE,
     moved |-> (~isMoving /\ canMove /\ inputDirection > 0)]

\* The engine's own moveByInput, without its touch destination
Engine_moveByInput ==
    [ranUnderlying |-> TRUE,
     moved |-> (~isMoving /\ canMove /\ inputDirection > 0)]

\* A call of the function that layer i of moveByInput holds:
\* StopMovement.js lines 24-28 return when the switch is on and otherwise
\* call the function that was installed when the plugin ran.
RECURSIVE RunMoveByInput(_, _)
RunMoveByInput(chain, i) ==
    CASE chain[i] = "StopMovement" ->
            IF SwitchValue(PCswitchId)
            THEN [ranUnderlying |-> FALSE, moved |-> FALSE]
            ELSE RunMoveByInput(chain, i - 1)
      [] chain[i] = "ReverieHouse" -> ReverieHouse_moveByInput
      [] chain[i] = "Engine" -> Engine_moveByInput

\* StopMovement.js lines 30-34, over the engine's updateSelfMovement
RECURSIVE RunUpdateSelfMovement(_, _)
RunUpdateSelfMovement(chain, i) ==
    CASE chain[i] = "StopMovement" ->
            IF SwitchValue(NPCswitchId)
            THEN [ranUnderlying |-> FALSE, moved |-> FALSE]
            ELSE RunUpdateSelfMovement(chain, i - 1)
      [] chain[i] = "Engine" -> [ranUnderlying |-> TRUE, moved |-> TRUE]

\* ReverieHouse.js runs: line 5 assigns moveByInput a new function that
\* calls nothing installed before it.
LoadReverieHouse ==
    /\ ~IsLoaded("ReverieHouse")
    /\ loaded' = Append(loaded, "ReverieHouse")
    /\ moveByInput' = <<"ReverieHouse">>
    /\ UNCHANGED <<stopParameters, updateSelfMovement, gameSwitches, isMoving,
                   canMove, inputDirection, lastMoveByInput, lastSelfMovement>>
    /\ UNCHANGED menuVars

\* StopMovement.js runs: lines 23-24 and 29-30 wrap what is installed.
LoadStopMovement ==
    /\ ~IsLoaded("StopMovement")
    /\ loaded' = Append(loaded, "StopMovement")
    /\ moveByInput' = Append(moveByInput, "StopMovement")
    /\ updateSelfMovement' = Append(updateSelfMovement, "StopMovement")
    /\ UNCHANGED <<stopParameters, gameSwitches, isMoving, canMove,
                   inputDirection, lastMoveByInput, lastSelfMovement>>
    /\ UNCHANGED menuVars

\* The CustomMainMenu file runs: it patches neither of the two methods.
LoadCustomMainMenu ==
    /\ ~IsLoaded("CustomMainMenu")
    /\ loaded' = Append(loaded, "CustomMainMenu")
    /\ UNCHANGED <<stopParameters, moveByInput, updateSelfMovement,
                   gameSwitches, isMoving, canMove, inputDirection,
                   lastMoveByInput, lastSelfMovement>>
    /\ UNCHANGED menuVars

\* The game sets a switch.
SetSwitch(id, value) ==
    /\ AllLoaded
    /\ gameSwitches[id] # value
    /\ gameSwitches' = [gameSwitches EXCEPT ![id] = value]
    /\ UNCHANGED <<stopParameters, loaded, moveByInput, updateSelfMovement,
                   isMoving, canMove, inputDirection, lastMoveByInput,
                   lastSelfMovement>>
    /\ UNCHANGED menuVars

\* The player presses or releases a direction.
PressDirection(d) ==
    /\ AllLoaded
    /\ inputDirection # d
    /\ inputDirection' = d
    /\ UNCHANGED <<stopParameters, loaded, moveByInput, updateSelfMovement,
                   gameSwitches, isMoving, canMove, lastMoveByInput,
                   lastSelfMovement>>
    /\ UNCHANGED menuVars

\* An event starts or ends: canMove() changes.
SetCanMove(value) ==
    /\ AllLoaded
    /\ canMove # value
    /\ canMove' = value
    /\ UNCHANGED <<stopParameters, loaded, moveByInput, updateSelfMovement,
                   gameSwitches, isMoving, inputDirection, lastMoveByInput,
                   lastSelfMovement>>
    /\ UNCHANGED menuVars

\* The step in progress ends.
MoveEnds ==
    /\ isMoving
    /\ isMoving' = FALSE
    /\ UNCHANGED <<stopParameters, loaded, moveByInput, updateSelfMovement,
                   gameSwitches, canMove, inputDirection, lastMoveByInput,
                   lastSelfMovement>>
    /\ UNCHANGED menuVars

\* Game_Player.prototype.moveByInput is called (once per frame on the map).
CallMoveByInput ==
    /\ AllLoaded
    /\ LET r == RunMoveByInput(moveByInput, Len(moveByInput))
       IN /\ lastMoveByInput' = [called |-> TRUE,
                                 switchOn |-> SwitchValue(PCswitchId),
                                 ranUnderlying |-> r.ranUnderlying,
                                 moved |-> r.moved]
          /\ isMoving' = (isMoving \/ r.moved)
    /\ UNCHANGED <<stopParameters, loaded, moveByInput, updateSelfMovement,
                   gameSwitches, canMove, inputDirection, lastSelfMovement>>
    /\ UNCHANGED menuVars

\* Game_Event.prototype.updateSelfMovement is called.
CallUpdateSelfMovement ==
    /\ AllLoaded
    /\ LET r == RunUpdateSelfMovement(updateSelfMovement,
                                      Len(updateSelfMovement))
       IN lastSelfMovement' = [called |-> TRUE,
                               switchOn |-> SwitchValue(NPCswitchId),
                               ranUnderlying |-> r.ranUnderlying,
                               moved |-> r.moved]
    /\ UNCHANGED <<stopParameters, loaded, moveByInput, updateSelfMovement,
                   gameSwitches, isMoving, canMove, inputDirection,
                   lastMoveByInput>>
    /\ UNCHANGED menuVars

\* Before any plugin file has run.
InitMoveState ==
    /\ loaded = <<>>
    /\ moveByInput = <<"Engine">>
    /\ updateSelfMovement = <<"Engine">>
    /\ gameSwitches = [id \in SwitchIds |-> FALSE]
    /\ isMoving = FALSE
    /\ canMove = TRUE
    /\ inputDirection = 0
    /\ lastMoveByInput = NoCall
    /\ lastSelfMovement = NoCall

----------------------------------------------------------------------------
(* Specifications *)

Speeds == {-1, 0, 2}
Volumes == {0, 50}
Pitches == {150}

InitState ==
    /\ currentMapBgm = Null
    /\ menuMusicActive = FALSE
    /\ scene = "Scene_Title"
    /\ prevScene = "Scene_Boot"
    /\ sceneStarted = TRUE
    /\ isTiling = FALSE
    /\ origin = <<0, 0>>
    /\ ticks = 0
    /\ currentBgm = Null
    /\ calls = <<>>
    /\ sessionFrom = "none"
    /\ sessionFirst = "none"
    /\ sessionBgm = Null
    /\ menuStarts = 0

\* The music parameters vary; the parallax runs at its defaults.
Init ==
    /\ parameters \in [backgroundImage : {Unset, File("Sky")},
                       parallaxHorizontalSpeed : {Unset},
                       parallaxVerticalSpeed : {Unset},
                       menuMusic : {Unset, File("Theme1")},
                       musicVolume : RawNumbers(Volumes),
                       musicPitch : RawNumbers(Pitches)]
    /\ InitState
    /\ stopParameters = [pc |-> Unset, npc |-> Unset]
    /\ InitMoveState

\* The parallax parameters vary; the music runs at its defaults.
InitParallax ==
    /\ parameters \in [backgroundImage : {Unset, File("Sky")},
                       parallaxHorizontalSpeed : RawNumbers(Speeds),
                       parallaxVerticalSpeed : RawNumbers(Speeds),
                       menuMusic : {File("Theme1")},
                       musicVolume : {Unset},
                       musicPitch : {Unset}]
    /\ InitState
    /\ stopParameters = [pc |-> Unset, npc |-> Unset]
    /\ InitMoveState

Next ==
    \/ \E next \in Scenes : MapChangeScene(next)
    \/ \E next \in Scenes : TitleChangeScene(next)
    \/ \E next \in Scenes : MenuBaseChangeScene(next)
    \/ MenuStart
    \/ OtherStart
    \/ Update
    \/ \E name \in MapTracks : GamePlayBgm(name)
    \/ GameStopBgm
    \/ AudioAdvance

Spec == Init /\ [][Next]_vars

SpecParallax == InitParallax /\ [][Next]_vars

\* The switch parameters vary; the plugin files run in any order, then the
\* game moves the player and the events.
InitMove ==
    /\ parameters = [backgroundImage |-> Unset,
                     parallaxHorizontalSpeed |-> Unset,
                     parallaxVerticalSpeed |-> Unset,
                     menuMusic |-> Unset,
                     musicVolume |-> Unset,
                     musicPitch |-> Unset]
    /\ InitState
    /\ stopParameters \in [pc : {Unset} \cup {Num(n) : n \in SwitchIds},
                           npc : {Unset} \cup {Num(n) : n \in SwitchIds}]
    /\ InitMoveState

NextMove ==
    \/ LoadReverieHouse
    \/ LoadStopMovement
    \/ LoadCustomMainMenu
    \/ \E id \in SwitchIds, value \in BOOLEAN : SetSwitch(id, value)
    \/ \E d \in Directions : PressDirection(d)
    \/ \E value \in BOOLEAN : SetCanMove(value)
    \/ MoveEnds
    \/ CallMoveByInput
    \/ CallUpdateSelfMovement

SpecMove == InitMove /\ [][NextMove]_vars

----------------------------------------------------------------------------
(* Vocabulary of the properties *)

PlayCalls == SelectSeq(calls, LAMBDA c : c.op = "playBgm")
ReplayCalls == SelectSeq(calls, LAMBDA c : c.op = "replayBgm")

\* A menu-family scene is current: a session is in progress.
InSession == IsMenuBase(scene)

\* The last scene change led from a menu-family scene back to the map.
ReturnedToMap == scene = "Scene_Map" /\ IsMenuBase(prevScene)

EnteredFromMap == sessionFrom = "Scene_Map"

\* A track was playing when the session was entered.
TrackWasPlaying == sessionBgm # Null /\ sessionBgm.name # ""

\* Nothing was playing when the session was entered.
NothingWasPlaying == sessionBgm = Null

\* The saved snapshot names no track.
SnapshotAbsent == currentMapBgm = Null \/ currentMapBgm.name = ""

DeviceSilent == currentBgm = Null \/ currentBgm.name = ""

\* What a numeric parameter is documented to become: its value when it is
\* a number in [lo, hi], the default when it is unset or not a number.
Documented(raw, lo, hi, default) ==
    IF raw.t = "num" /\ lo <= raw.v /\ raw.v <= hi THEN raw.v ELSE default

----------------------------------------------------------------------------
(* C1 *)

\* C1: in a session entered from the map while a track T was playing at
\* position P (menu track configured), T is not played again before the
\* session ends, and once the session has returned to the map exactly one
\* replayBgm call has been issued, carrying the T and P of that session.
C1_ResumedOnceWithCaptured ==
    (menuMusic # "" /\ EnteredFromMap /\ TrackWasPlaying) =>
        /\ InSession =>
              \A i \in 1..Len(calls) :
                  calls[i].op \in {"playBgm", "replayBgm"} =>
                      calls[i].bgm.name # sessionBgm.name
        /\ ReturnedToMap => ReplayCalls = <<ReplayCall(sessionBgm)>>

----------------------------------------------------------------------------
(* C2 *)

\* C2: when nothing was playing as the session was entered from the map,
\* the snapshot names no track, and once the session has returned to the
\* map no replayBgm call has been issued and the device is silent.
C2_SilentEntryNoResume ==
    (EnteredFromMap /\ NothingWasPlaying) =>
        /\ InSession => SnapshotAbsent
        /\ ReturnedToMap => ReplayCalls = <<>>
        /\ (ReturnedToMap /\ ~sceneStarted) => DeviceSilent

----------------------------------------------------------------------------
(* C3 *)

\* C3 (frame part): a change from one menu-family scene to another issues
\* no device call and leaves _menuMusicActive and _currentMapBgm as they were.
C3_MenuToMenuChangesNothing ==
    [][(IsMenuBase(scene) /\ IsMenuBase(scene') /\ scene' # scene) =>
          (calls' = calls /\ menuMusicActive' = menuMusicActive
           /\ currentMapBgm' = currentMapBgm /\ currentBgm' = currentBgm)]_vars

\* C3: in a session in which Scene_Menu.start has run, however often, and
\* after it has returned to the map, the menu track has been started
\* (stopBgm, playBgm of the menu track) exactly once.
C3_MenuTrackStartedOnce ==
    (menuMusic # "" /\ EnteredFromMap /\ menuStarts >= 1
        /\ (InSession \/ ReturnedToMap)) =>
        /\ Len(PlayCalls) = 1
        /\ SubSeq(calls, 1, 2) = <<StopCall, PlayCall(MenuBgm)>>

----------------------------------------------------------------------------
(* C4 *)

\* C4: with no menu track configured the plugin issues no stopBgm, playBgm
\* or replayBgm call in any session, and _menuMusicActive is never true.
C4_NoMenuTrackNoCalls ==
    menuMusic = "" => (calls = <<>> /\ ~menuMusicActive)

\* A session with no menu track configured that was entered from the map
\* while a track played, ran Scene_Menu.start twice (main menu, sub-scene,
\* main menu) and has returned to the map.
C4_Witness ==
    /\ menuMusic = ""
    /\ ReturnedToMap /\ EnteredFromMap /\ TrackWasPlaying
    /\ menuStarts = 2

----------------------------------------------------------------------------
(* C5 *)

\* C5: in a session entered from the map while a track was playing (menu
\* track configured), the device calls are stopBgm, playBgm(menu track,
\* volume, pitch, pan 0) once the first scene has started, with the
\* snapshot holding what played before that stop; and stopBgm,
\* replayBgm(snapshot) follow by the time the map is current again;
\* nothing else is called.
C5_DeviceCallSequence ==
    (menuMusic # "" /\ EnteredFromMap /\ TrackWasPlaying) =>
        /\ (InSession /\ sceneStarted) =>
              /\ calls = <<StopCall, PlayCall(MenuBgm)>>
              /\ currentMapBgm = sessionBgm
        /\ ReturnedToMap =>
              calls = <<StopCall, PlayCall(MenuBgm),
                        StopCall, ReplayCall(sessionBgm)>>

----------------------------------------------------------------------------
(* C6 *)

\* C6: _menuMusicActive is true only while a menu-family scene is current;
\* with any other scene current it is false, however the menu was left.
C6_ActiveOnlyInSession == menuMusicActive => IsMenuBase(scene)

----------------------------------------------------------------------------
(* C7 *)

\* C7: after a change from a menu-family scene back to the map
\* _menuMusicActive is false and _currentMapBgm is absent, and a replayBgm
\* call only ever carries a snapshot captured in the session it is issued in.
C7_SnapshotConsumedOnce ==
    /\ ReturnedToMap => (~menuMusicActive /\ currentMapBgm = Null)
    /\ ReplayCalls # <<>> => EnteredFromMap

\* The second part of C7 alone: no session entered from elsewhere than the
\* map, which captures nothing, resumes a snapshot.
C7_NoStaleResume == ReplayCalls # <<>> => EnteredFromMap

----------------------------------------------------------------------------
(* C8 *)

\* C8: whichever menu-family scene a session begins with, and whichever
\* scene it is entered from, the snapshot holds what was playing at the
\* entry, and once that scene has started the menu track is active when
\* one is configured.
C8_EveryEntryStartsMenuTrack ==
    InSession =>
        /\ currentMapBgm = IF sessionBgm # Null THEN sessionBgm
                           ELSE EmptyAudioObject
        /\ (menuMusic # "" /\ sceneStarted) => menuMusicActive

----------------------------------------------------------------------------
(* C9 *)

\* C9: with a background image configured and integer velocities (vx, vy)
\* configured, zero and negative included, the origin of a menu-family
\* scene after N update calls is (vx * N, vy * N), (0, 0) at N = 0;
\* without a background image the origin stays where it is.
C9_OriginIsVelocityTimesTicks ==
    InSession =>
        IF backgroundImage # ""
        THEN (parameters.parallaxHorizontalSpeed.t = "num"
              /\ parameters.parallaxVerticalSpeed.t = "num") =>
                 origin = <<parameters.parallaxHorizontalSpeed.v * ticks,
                            parameters.parallaxVerticalSpeed.v * ticks>>
        ELSE origin = <<0, 0>>

----------------------------------------------------------------------------
(* C10 *)

\* C10: every playBgm call of the menu track carries the documented
\* volume (the configured number when in 0..100, else 80) and pitch (the
\* configured number when in 50..150, else 100), and the first update of a
\* scrolling background moves it by the documented velocity (the
\* configured numbers, else 1 and 0).
C10_ParseOrDefault ==
    /\ \A i \in 1..Len(calls) :
          calls[i].op = "playBgm" =>
              /\ calls[i].bgm.volume =
                     Documented(parameters.musicVolume, 0, 100, 80)
              /\ calls[i].bgm.pitch =
                     Documented(parameters.musicPitch, 50, 150, 100)
    /\ (InSession /\ isTiling /\ ticks = 1) =>
          origin = <<Documented(parameters.parallaxHorizontalSpeed,
                                -1000, 1000, 1),
                     Documented(parameters.parallaxVerticalSpeed,
                                -1000, 1000, 0)>>

----------------------------------------------------------------------------
(* C11 *)

\* C11: with every plugin file loaded, in whatever order, a moveByInput
\* call made while the 'PC Switch ID' switch is on executes no move and an
\* updateSelfMovement call made while the 'NPC Switch ID' switch is on
\* performs no self-movement; with the switch off, or the id left at -1,
\* the underlying function runs.
C11_SwitchesGateMovement ==
    /\ lastMoveByInput.called =>
          /\ lastMoveByInput.switchOn => ~lastMoveByInput.moved
          /\ ~lastMoveByInput.switchOn => lastMoveByInput.ranUnderlying
    /\ lastSelfMovement.called =>
          /\ lastSelfMovement.switchOn => ~lastSelfMovement.moved
          /\ ~lastSelfMovement.switchOn => lastSelfMovement.ranUnderlying

====
